---------------------------- MODULE Spec2Model ----------------------------
(***************************************************************************)
(* Model of the run-streaming and checkpoint-chain subsystem of the echo   *)
(* API: the in-memory store (services/storage.py), the checkpoint and      *)
(* message builders (data_utils.py), the streaming and history endpoints   *)
(* (main.py), the EchoStreamer generator (services/streaming.py) and the   *)
(* frame encoder (utils.py).                                               *)
(*                                                                         *)
(* Strings are sequences of one-character strings.  Python objects that    *)
(* are shared by reference (checkpoints) live in `heap` and are named by   *)
(* their address; message lists are deep-copied by the code and are values.*)
(* The generator runs on a single-threaded event loop: the code between    *)
(* two suspension points (a yield or the per-token sleep) is one action.   *)
(* uuid4 draws are modelled as fresh numbers.  Timestamps are left out.    *)
(***************************************************************************)
EXTENDS Integers, Sequences, FiniteSets, TLC

\* ------------------------------------------------------------------ bounds
MaxThreads == 2
MaxRuns == 2
\* the longest request text in Spec, in SpecHappy and in SpecSerial
MaxRaceTextLen == 0
MaxTextLen == 3
MaxSerialTextLen == 5
\* the streams requested in SpecSerial
MaxSerialRuns == 1
\* the stream requests for unknown threads in SpecSerial
MaxRejected == 1
\* streams of the specification with fairness
MaxLiveRuns == 1
\* streams, runs without a stream and their texts where both kinds of run mix
MaxMixedRuns == 1
MaxPlainRuns == 2
MaxPlainTextLen == 1
\* the longest string, the longest list and the largest id of an encoder call
MaxJsonStrLen == 2
MaxJsonItems == 2
MaxSseId == 2
\* the largest offset and limit of a history read
MaxOffset == 3
MaxLimit == 3

\* The characters request texts are made of: one letter and the blank.
Chars == {"a", " "}

VARIABLES
    threads,                  \* db.threads: Seq of Thread records, thread_id = index
    threads_checkpoint_list,  \* db.threads_checkpoint_list: per thread, Seq of heap addresses, newest first
    heap,                     \* the checkpoint objects by address (NoCheckpoint: not allocated)
    runs,                     \* db.runs: Seq of run records (run_data), run_id = index
    streamer,                 \* per run: the EchoStreamer's fields, the generator's locals and position
    out,                      \* per run: the frames handed to the consumer, in order
    accepted,                 \* per run: the messages of the thread's latest checkpoint when the request was accepted
    overlapped,               \* the threads on which two streams were ever in flight at once
    rejected,                 \* the thread ids of the run requests answered 404, in order
    sse_call,                 \* the last call of the frame encoder: its arguments and the frame
    plain_runs                \* db.runs, the records made by create_run (runs without a stream), in order

vars == <<threads, threads_checkpoint_list, heap, runs, streamer, out, accepted, overlapped, rejected, sse_call, plain_runs>>

\* ------------------------------------------------------------ strings
IsSpace(c) == c = " "

RECURSIVE lstrip(_)
lstrip(s) == IF s # <<>> /\ IsSpace(Head(s)) THEN lstrip(Tail(s)) ELSE s

RECURSIVE rstrip(_)
rstrip(s) ==
    IF s # <<>> /\ IsSpace(s[Len(s)]) THEN rstrip(SubSeq(s, 1, Len(s) - 1)) ELSE s

\* str.strip()
strip(s) == rstrip(lstrip(s))

\* str.split(): the maximal runs of non-blank characters, in order
RECURSIVE SplitFrom(_, _, _)
SplitFrom(s, cur, acc) ==
    IF s = <<>> THEN (IF cur = <<>> THEN acc ELSE Append(acc, cur))
    ELSE IF IsSpace(Head(s))
         THEN SplitFrom(Tail(s), <<>>, IF cur = <<>> THEN acc ELSE Append(acc, cur))
         ELSE SplitFrom(Tail(s), Append(cur, Head(s)), acc)

split(s) == SplitFrom(s, <<>>, <<>>)

\* "".join(chunks)
RECURSIVE join(_)
join(chunks) == IF chunks = <<>> THEN <<>> ELSE Head(chunks) \o join(Tail(chunks))

\* " ".join(ws)
RECURSIVE JoinSpaces(_)
JoinSpaces(ws) ==
    IF ws = <<>> THEN <<>>
    ELSE IF Len(ws) = 1 THEN ws[1]
    ELSE ws[1] \o <<" ">> \o JoinSpaces(Tail(ws))

Placeholder ==
    <<"I", " ", "d", "i", "d", "n", "'", "t", " ", "c", "a", "t", "c", "h", " ",
      "t", "h", "a", "t", "!">>

\* The texts a request payload can carry.
RECURSIVE SeqsUpTo(_)
SeqsUpTo(n) ==
    IF n = 0 THEN {<<>>}
    ELSE LET shorter == SeqsUpTo(n - 1)
         IN shorter \cup {Append(s, c) : s \in {x \in shorter : Len(x) = n - 1}, c \in Chars}

\* the sequences over S of length up to n
RECURSIVE SeqsOver(_, _)
SeqsOver(S, n) ==
    IF n = 0 THEN {<<>>}
    ELSE LET shorter == SeqsOver(S, n - 1)
         IN shorter \cup {Append(s, c) : s \in {x \in shorter : Len(x) = n - 1}, c \in S}

PayloadTexts == SeqsUpTo(MaxTextLen)
RaceTexts == SeqsUpTo(MaxRaceTextLen)
PlainTexts == SeqsUpTo(MaxPlainTextLen)
SerialTexts == SeqsUpTo(MaxSerialTextLen)


\* ------------------------------------------------------- data builders
\* A checkpoint id is a uuid and a suffix: (u, "") for a genesis uuid,
\* (run uuid, ":step_k") for f"{run_id}:step_k".  NullId stands for None.
NullId == <<"none", 0, "">>
GenesisId(t) == <<"uuid-checkpoint", t, "">>

\* a step id made of the run id alone
StepId_without_step(run_id, suffix) == <<"uuid-run", run_id, "">>

\* f"{run_id}:step_0", f"{run_id}:step_1"
StepId(run_id, suffix) == <<"uuid-run", run_id, suffix>>

InitialRunId == 0

\* a builder whose messages are born with usage metadata
make_msg_with_usage(role, content) ==
    [role |-> role, content |-> content,
     response_metadata |-> <<[prompt_tokens |-> 0, completion_tokens |-> 0,
                              total_tokens |-> 0]>>]

\* "response_metadata": {} is the empty sequence, {"usage": u} is <<u>>
make_msg(role, content) ==
    [role |-> role, content |-> content, response_metadata |-> <<>>]

\* a builder that drops the parent link
make_checkpoint_no_parent(checkpoint_id, parent_checkpoint_id, thread_id, run_id, step, messages) ==
    [checkpoint_id |-> checkpoint_id,
     parent_checkpoint |-> NullId,
     thread_id |-> thread_id,
     run_id |-> run_id,
     step |-> step,
     messages |-> messages]

\* "parent_checkpoint" is None when parent_checkpoint_id is falsy; the ids the
\* code passes are None or non-empty strings, and None is NullId
make_checkpoint(checkpoint_id, parent_checkpoint_id, thread_id, run_id, step, messages) ==
    [checkpoint_id |-> checkpoint_id,
     parent_checkpoint |-> parent_checkpoint_id,
     thread_id |-> thread_id,
     run_id |-> run_id,
     step |-> step,
     messages |-> messages]

\* ---------------------------------------------------------------- store
ThreadIds == 1 .. Len(threads)
RunIds == 1 .. Len(runs)

get_thread_checkpoints(thread_id) == threads_checkpoint_list[thread_id]

\* a store whose "latest" is the checkpoint registered before the newest one
get_latest_checkpoint_stale(thread_id) ==
    LET checkpoints == get_thread_checkpoints(thread_id)
    IN IF Len(checkpoints) > 1 THEN checkpoints[2] ELSE checkpoints[1]

\* the address of the newest checkpoint of the thread
get_latest_checkpoint(thread_id) == get_thread_checkpoints(thread_id)[1]

\* a store that appends at the tail
add_checkpoint_at_tail(list, a) == Append(list, a)

\* a store that overwrites the newest entry
add_checkpoint_over_head(list, a) == <<a>> \o Tail(list)

\* list.insert(0, checkpoint)
add_checkpoint(list, a) == <<a>> \o list

\* list[start:stop] of Python: negative indexes count from the end, both ends
\* are clipped to the list
PySlice(list, start, stop) ==
    LET n == Len(list)
        Clip(i) == IF i < 0 THEN (IF n + i < 0 THEN 0 ELSE n + i)
                   ELSE (IF i > n THEN n ELSE i)
        lo == Clip(start)
        hi == Clip(stop)
    IN [i \in 1 .. (IF hi > lo THEN hi - lo ELSE 0) |-> list[lo + i]]

\* a range read that starts one checkpoint too late
get_history_skip_first(thread_id, offset, limit) ==
    PySlice(get_thread_checkpoints(thread_id), offset + 1, offset + 1 + limit)

\* checkpoints[offset : offset + limit]
get_history(thread_id, offset, limit) ==
    PySlice(get_thread_checkpoints(thread_id), offset, offset + limit)

get_history_count(thread_id) == Len(get_thread_checkpoints(thread_id))

DefaultLimit == 50

\* POST /threads/{thread_id}/history for a known thread: the page as it is
\* serialized and the x-offset / x-next-offset headers.  A payload member is <<>>
\* when absent and <<n>> when it is n; `or` replaces an absent or zero member.
thread_history(thread_id, payload_offset, payload_limit) ==
    LET offset == IF payload_offset = <<>> \/ payload_offset = <<0>> THEN 0
                  ELSE payload_offset[1]
        limit == IF payload_limit = <<>> \/ payload_limit = <<0>> THEN DefaultLimit
                 ELSE payload_limit[1]
        page == get_history(thread_id, offset, limit)
        total_items == get_history_count(thread_id)
    IN [page |-> [i \in DOMAIN page |-> heap[page[i]]],
        x_offset |-> <<offset>>,
        x_next_offset |-> IF offset + limit < total_items THEN <<offset + limit>>
                          ELSE <<>>]

\* the checkpoint objects of a thread, newest first
Checkpoints(t) ==
    [i \in 1 .. Len(threads_checkpoint_list[t]) |-> heap[threads_checkpoint_list[t][i]]]

\* --------------------------------------------------------------- frames
NoId == 0
NoCheckpoint == make_checkpoint(NullId, NullId, 0, 0, 0, <<>>)

Frame(id, event, op, path, run_id, thread_id, status, checkpoint, chunk, message) ==
    [id |-> id, event |-> event, op |-> op, path |-> path, run_id |-> run_id,
     thread_id |-> thread_id, status |-> status, checkpoint |-> checkpoint,
     chunk |-> chunk, message |-> message]

\* The address of an object names the call that built it: the genesis of thread t,
\* or step k of run r.  Distinct calls build distinct objects.
HeapSize == MaxThreads + 2 * MaxRuns
GenesisAddr(t) == t
StepAddr(r, k) == MaxThreads + 2 * (r - 1) + k + 1

Keepalive == Frame(NoId, "keepalive", "", "", 0, 0, "", NoCheckpoint, <<>>, "")

\* ----------------------------------------------------- the frame encoder
\* Characters that need a name: the line feed, the quotation mark, the
\* backslash and U+2028 LINE SEPARATOR.
LF == "LF"
QUOTE == "QUOTE"
BACKSLASH == "BACKSLASH"
LS == "U+2028"

\* the characters of the strings inside a payload
JsonChars == {"a", LF, QUOTE, LS}

\* JSON values: a string, a list of strings, an object of string members
JStr(chars) == [t |-> "str", v |-> chars]
JList(items) == [t |-> "list", v |-> items]
JObj(members) == [t |-> "obj", v |-> members]

\* the escapes of json.dumps(..., ensure_ascii=False): the quotation mark, the
\* backslash and the control characters are escaped, everything else is kept
EscapeChar(c) ==
    IF c = QUOTE THEN <<BACKSLASH, QUOTE>>
    ELSE IF c = BACKSLASH THEN <<BACKSLASH, BACKSLASH>>
    ELSE IF c = LF THEN <<BACKSLASH, "n">>
    ELSE <<c>>

RECURSIVE Escape(_)
Escape(chars) ==
    IF chars = <<>> THEN <<>> ELSE EscapeChar(Head(chars)) \o Escape(Tail(chars))

DumpsStr(chars) == <<QUOTE>> \o Escape(chars) \o <<QUOTE>>

\* sep.join(parts)
RECURSIVE JoinWith(_, _)
JoinWith(parts, sep) ==
    IF parts = <<>> THEN <<>>
    ELSE IF Len(parts) = 1 THEN parts[1]
    ELSE parts[1] \o sep \o JoinWith(Tail(parts), sep)

Indent == <<" ", " ">>

\* json.dumps(data, ensure_ascii=False, indent=2)
json_dumps(data) ==
    IF data.t = "str" THEN DumpsStr(data.v)
    ELSE IF data.t = "list"
    THEN IF data.v = <<>> THEN <<"[", "]">>
         ELSE <<"[", LF>>
              \o JoinWith([i \in DOMAIN data.v |-> Indent \o DumpsStr(data.v[i])],
                          <<",", LF>>)
              \o <<LF, "]">>
    ELSE IF data.v = <<>> THEN <<"{", "}">>
         ELSE <<"{", LF>>
              \o JoinWith([i \in DOMAIN data.v |->
                              Indent \o DumpsStr(data.v[i][1]) \o <<":", " ">>
                                     \o DumpsStr(data.v[i][2])],
                          <<",", LF>>)
              \o <<LF, "}">>

\* the line boundaries of str.splitlines() among the characters of the model
\* (the others are control characters, which json.dumps escapes, U+0085 and
\* U+2029)
LineBoundaries == {LF, LS}

\* str.splitlines(): a line ends at every boundary; no empty last line
RECURSIVE SplitLinesFrom(_, _, _)
SplitLinesFrom(s, cur, acc) ==
    IF s = <<>> THEN (IF cur = <<>> THEN acc ELSE Append(acc, cur))
    ELSE IF Head(s) \in LineBoundaries
         THEN SplitLinesFrom(Tail(s), <<>>, Append(acc, cur))
         ELSE SplitLinesFrom(Tail(s), Append(cur, Head(s)), acc)

splitlines(s) == SplitLinesFrom(s, <<>>, <<>>)

\* str(n) for a non-negative integer
Digits == <<"0", "1", "2", "3", "4", "5", "6", "7", "8", "9">>

RECURSIVE str(_)
str(n) == IF n < 10 THEN <<Digits[n + 1]>> ELSE str(n \div 10) \o <<Digits[(n % 10) + 1]>>

IdPrefix == <<"i", "d", ":", " ">>
EventPrefix == <<"e", "v", "e", "n", "t", ":", " ">>
DataPrefix == <<"d", "a", "t", "a", ":", " ">>

\* utils.sse: id_ is <<>> for None and <<n>> for the integer n
sse(event, data, id_) ==
    LET id_part == IF id_ # <<>> THEN <<IdPrefix \o str(id_[1])>> ELSE <<>>
        lines == splitlines(json_dumps(data))
        parts == id_part \o <<EventPrefix \o event>>
                         \o [i \in DOMAIN lines |-> DataPrefix \o lines[i]]
    IN JoinWith(parts, <<LF>>) \o <<LF, LF>>

\* no call of the encoder yet
NoCall == [event |-> <<>>, data |-> JStr(<<>>), id_ |-> <<>>, frame |-> <<>>]

\* --------------------------------------------------------------- state
Init ==
    /\ threads = <<>>
    /\ threads_checkpoint_list = <<>>
    /\ heap = [a \in 1 .. HeapSize |-> NoCheckpoint]
    /\ runs = <<>>
    /\ streamer = <<>>
    /\ out = <<>>
    /\ accepted = <<>>
    /\ overlapped = {}
    /\ rejected = <<>>
    /\ sse_call = NoCall
    /\ plain_runs = <<>>

Ended == {"done", "errored", "disconnected"}

InFlight(r) == streamer[r].pc \notin Ended

\* POST /threads.  A time stamp is kept as the number of times the record
\* was stamped again after its creation: now_iso() of a later request is a
\* later time, so a record stamped again never shows the stamp it had.
create_thread ==
    /\ Len(threads) < MaxThreads
    /\ LET thread_id == Len(threads) + 1
           start_ckpt == make_checkpoint(GenesisId(thread_id), NullId, thread_id,
                                         InitialRunId, -1, <<>>)
       IN /\ threads' = Append(threads, [thread_id |-> thread_id, status |-> "idle",
                                         messages |-> <<>>, updated_at |-> 0])
          /\ heap' = [heap EXCEPT ![GenesisAddr(thread_id)] = start_ckpt]
          /\ threads_checkpoint_list' =
                 Append(threads_checkpoint_list, <<GenesisAddr(thread_id)>>)
    /\ UNCHANGED <<runs, streamer, out, accepted, overlapped, rejected, sse_call, plain_runs>>

\* EchoStreamer.__init__
EchoStreamer(thread_id, run_id, text, thread_checkpoints) ==
    [thread_id |-> thread_id,
     run_id |-> run_id,
     text |-> text,
     latest_checkpoint |-> thread_checkpoints[1],
     event_id |-> 1,
     pc |-> "start",
     step_0_ckpt |-> 0,
     step_1_ckpt |-> 0,
     full_content_chunks |-> <<>>,
     final_checkpoint |-> 0,
     fault |-> "",
     cut |-> ""]

\* a handler that marks the thread busy and stamps it when it accepts a stream
stream_run_touches_thread(thread_id, payload_text) ==
    /\ thread_id \in ThreadIds
    /\ Len(runs) < MaxRuns
    /\ LET thread_checkpoints == get_thread_checkpoints(thread_id)
           text == strip(payload_text)
           run_id == Len(runs) + 1
           run_data == [run_id |-> run_id, thread_id |-> thread_id, status |-> "running"]
       IN /\ runs' = Append(runs, run_data)
          /\ streamer' = Append(streamer,
                                EchoStreamer(thread_id, run_id, text, thread_checkpoints))
          /\ out' = Append(out, <<>>)
          /\ accepted' = Append(accepted, heap[thread_checkpoints[1]].messages)
          /\ overlapped' =
                IF \E q \in RunIds : streamer[q].thread_id = thread_id /\ InFlight(q)
                THEN overlapped \cup {thread_id}
                ELSE overlapped
    /\ threads' = [threads EXCEPT ![thread_id].status = "busy",
                                  ![thread_id].updated_at = @ + 1]
    /\ UNCHANGED <<threads_checkpoint_list, heap, rejected, sse_call, plain_runs>>

\* POST /threads/{thread_id}/runs/stream for a known thread
stream_run(thread_id, payload_text) ==
    /\ thread_id \in ThreadIds
    /\ Len(runs) < MaxRuns
    /\ LET thread_checkpoints == get_thread_checkpoints(thread_id)
           text == strip(payload_text)
           run_id == Len(runs) + 1
           run_data == [run_id |-> run_id, thread_id |-> thread_id, status |-> "running"]
       IN /\ runs' = Append(runs, run_data)
          /\ streamer' = Append(streamer,
                                EchoStreamer(thread_id, run_id, text, thread_checkpoints))
          /\ out' = Append(out, <<>>)
          /\ accepted' = Append(accepted, heap[thread_checkpoints[1]].messages)
          /\ overlapped' =
                IF \E q \in RunIds : streamer[q].thread_id = thread_id /\ InFlight(q)
                THEN overlapped \cup {thread_id}
                ELSE overlapped
    /\ UNCHANGED <<threads, threads_checkpoint_list, heap, rejected, sse_call, plain_runs>>

\* a handler that registers the run before it finds the thread unknown
stream_run_registers_then_rejects(thread_id) ==
    /\ thread_id \notin ThreadIds
    /\ Len(rejected) < MaxRejected
    /\ Len(runs) < MaxRuns
    /\ rejected' = Append(rejected, thread_id)
    /\ LET run_id == Len(runs) + 1
       IN /\ runs' = Append(runs, [run_id |-> run_id, thread_id |-> thread_id,
                                   status |-> "running"])
          /\ streamer' = Append(streamer,
                                [EchoStreamer(thread_id, run_id, <<>>, <<0>>)
                                    EXCEPT !.pc = "disconnected"])
          /\ out' = Append(out, <<>>)
          /\ accepted' = Append(accepted, <<>>)
    /\ UNCHANGED <<threads, threads_checkpoint_list, heap, overlapped, sse_call, plain_runs>>

\* POST /threads/{thread_id}/runs/stream for an unknown thread: the 404 of
\* main.py line 103, raised before anything else is done
stream_run_not_found(thread_id) ==
    /\ thread_id \notin ThreadIds
    /\ Len(rejected) < MaxRejected
    /\ rejected' = Append(rejected, thread_id)
    /\ UNCHANGED <<threads, threads_checkpoint_list, heap, runs, streamer, out, accepted,
                   overlapped, sse_call, plain_runs>>

\* the uuid of the n-th run made by create_run, apart from the streams' run ids
PlainRunId(n) == MaxRuns + n

\* InMemoryStorage.create_run: the thread record after the echo was appended
\* to its values.messages
echo_into_thread(t, user_text) ==
    LET assistant_msg == [role |-> "assistant", content |-> user_text]
        with_user ==
            IF user_text # <<>>
               /\ (t.messages = <<>> \/ t.messages[Len(t.messages)].content # user_text)
            THEN Append(t.messages, [role |-> "user", content |-> user_text])
            ELSE t.messages
    IN [t EXCEPT !.messages = Append(with_user, assistant_msg),
                 !.updated_at = @ + 1,
                 !.status = "idle"]

\* POST /threads/{thread_id}/runs for a known thread: resolve_assistant_id
\* returns ASSISTANT_ID for every payload, so the 400 of main.py line 84 is
\* never raised
create_run(thread_id, payload_text) ==
    /\ thread_id \in ThreadIds
    /\ Len(plain_runs) < MaxPlainRuns
    /\ LET user_text == strip(payload_text)
           assistant_msg == [role |-> "assistant", content |-> user_text]
           run == [run_id |-> PlainRunId(Len(plain_runs) + 1),
                   thread_id |-> thread_id,
                   status |-> "success",
                   output |-> user_text,
                   messages |-> <<assistant_msg>>]
       IN /\ threads' = [threads EXCEPT ![thread_id] = echo_into_thread(@, user_text)]
          /\ plain_runs' = Append(plain_runs, run)
    /\ UNCHANGED <<threads_checkpoint_list, heap, runs, streamer, out, accepted, overlapped,
                   rejected, sse_call>>

\* POST /threads/{thread_id}/runs for an unknown thread: the 404 of main.py line 80
create_run_not_found(thread_id) ==
    /\ thread_id \notin ThreadIds
    /\ Len(rejected) < MaxRejected
    /\ rejected' = Append(rejected, thread_id)
    /\ UNCHANGED <<threads, threads_checkpoint_list, heap, runs, streamer, out, accepted,
                   overlapped, sse_call, plain_runs>>

\* ------------------------------------------------- the generator's parts
\* a split without the placeholder for the empty text
Words_no_placeholder(text) ==
    LET words == split(text)
    IN IF words = <<>> THEN <<text>> ELSE words

\* words = self.text.split(), with the two fallbacks for an empty list
Words(text) ==
    LET words == split(text)
    IN IF words = <<>> /\ text = <<>> THEN <<Placeholder>>
       ELSE IF words = <<>> /\ text # <<>> THEN <<text>>
       ELSE words

\* a chunk that carries the whole text so far
Chunk_accumulated(words, k) == JoinSpaces(SubSeq(words, 1, k))

\* chunk = word + " " if word != words[-1] else word
Chunk(words, k) ==
    IF words[k] # words[Len(words)] THEN words[k] \o <<" ">> ELSE words[k]

\* self._next_id(): the streamer after the call; the id returned is s.event_id
next_id(s) == [s EXCEPT !.event_id = @ + 1]

create_step_0_checkpoint(s) ==
    LET user_msg == make_msg("user", s.text)
        messages == Append(heap[s.latest_checkpoint].messages, user_msg)
    IN make_checkpoint(StepId(s.run_id, ":step_0"),
                       heap[s.latest_checkpoint].checkpoint_id,
                       s.thread_id, s.run_id, 0, messages)

create_step_1_checkpoint(s, step_0_ckpt) ==
    LET assistant_msg == make_msg("assistant", <<>>)
        messages == Append(step_0_ckpt.messages, assistant_msg)
    IN make_checkpoint(StepId(s.run_id, ":step_1"),
                       step_0_ckpt.checkpoint_id,
                       s.thread_id, s.run_id, 1, messages)

\* an overwrite that hits the first message of the checkpoint
set_content_first(h, a, final_text) ==
    [h EXCEPT ![a].messages[1].content = final_text]

\* line 70: checkpoint["values"]["messages"][-1]["content"] = final_text, on
\* the checkpoint object at address a
set_content(h, a, final_text) ==
    [h EXCEPT ![a].messages[Len(h[a].messages)].content = final_text]

PromptTokens == 5

\* a count that misses the last word
UsageOffByOne(num_words) ==
    [prompt_tokens |-> PromptTokens,
     completion_tokens |-> num_words - 1,
     total_tokens |-> PromptTokens + num_words - 1]

\* the "usage" record _finalize_data attaches
Usage(num_words) ==
    [prompt_tokens |-> PromptTokens,
     completion_tokens |-> num_words,
     total_tokens |-> PromptTokens + num_words]

\* a finalization that leaves the status as it was
FinalStatusUnset == "running"

\* self.run_data["status"] = "success"
FinalStatus == "success"

sse_metadata(s) ==
    Frame(s.event_id, "metadata", "", "", s.run_id, s.thread_id, "", NoCheckpoint, <<>>, "")

sse_run_start(s, run_data) ==
    Frame(s.event_id, "data", "add", "/runs/-", run_data.run_id, run_data.thread_id,
          run_data.status, NoCheckpoint, <<>>, "")

sse_checkpoint(s, checkpoint) ==
    Frame(s.event_id, "data", "add", "/checkpoints/-", 0, 0, "", checkpoint, <<>>, "")

\* the path is f"/messages/{len(step_1 messages) - 1}/content/-": the index is kept
\* in thread_id's place, which a token frame does not use
sse_token(s, index, chunk) ==
    Frame(s.event_id, "data", "add", "/messages/{index}/content/-", 0, index, "",
          NoCheckpoint, chunk, "")

\* a replace-run frame sent as a second add-run frame
sse_run_end_as_add(s, run_data) ==
    Frame(s.event_id, "data", "add", "/runs/-", run_data.run_id, run_data.thread_id,
          run_data.status, NoCheckpoint, <<>>, "")

sse_run_end(s, run_data) ==
    Frame(s.event_id, "data", "replace", "/runs/0", run_data.run_id, run_data.thread_id,
          run_data.status, NoCheckpoint, <<>>, "")

sse_checkpoint_end(s, checkpoint) ==
    Frame(s.event_id, "data", "replace", "/checkpoints/0", 0, 0, "", checkpoint, <<>>, "")

sse_stream_end(s, checkpoint) ==
    Frame(s.event_id, "stream_end", "", "", s.run_id, 0, "", checkpoint, <<>>, "")

sse_error(s) ==
    Frame(s.event_id, "error", "", "", s.run_id, 0, "", NoCheckpoint, <<>>, "str(e)")

\* a handler that reports the error twice and never ends the stream
sse_error_twice(s) ==
    Frame(s.event_id, "error", "", "", s.run_id, 0, "", NoCheckpoint, <<>>, "str(e)")

sse_error_stream_end(s) ==
    Frame(s.event_id, "stream_end", "", "", s.run_id, 0, "", NoCheckpoint, <<>>, "")

\* the generator of run r hands `frame` to the consumer and is suspended at `pc`
Yield(r, s, pc, frame) ==
    /\ streamer' = [streamer EXCEPT ![r] = [s EXCEPT !.pc = pc]]
    /\ out' = [out EXCEPT ![r] = Append(@, frame)]

\* except Exception: yield sse("error", ..., id_=self.event_id)
Raise(r, s, where) ==
    /\ streamer' = [streamer EXCEPT ![r] = [s EXCEPT !.pc = "y_error", !.fault = where]]
    /\ out' = [out EXCEPT ![r] = Append(@, sse_error(s))]


\* ------------------------------------------ the generator, part by part
\* Each action below is the code of stream_response between two suspension
\* points.  A fault (an exception that is an Exception) may cut the part at
\* the places named by `f`; the handler of line 85 then takes over.

\* line 37: the first resumption runs up to the keepalive
Start(r) ==
    /\ streamer[r].pc = "start"
    /\ Yield(r, streamer[r], "y_keepalive", Keepalive)
    /\ UNCHANGED <<threads, threads_checkpoint_list, heap, runs, accepted, overlapped, rejected, sse_call, plain_runs>>

\* line 38: the id is taken before sse() builds the frame
Metadata(r, F) ==
    /\ streamer[r].pc = "y_keepalive"
    /\ \E f \in {"none"} \cup (F \cap {"sse"}) :
         LET s == streamer[r]
         IN IF f = "sse" THEN Raise(r, next_id(s), "metadata.sse")
            ELSE Yield(r, next_id(s), "y_metadata", sse_metadata(s))
    /\ UNCHANGED <<threads, threads_checkpoint_list, heap, runs, accepted, overlapped, rejected, sse_call, plain_runs>>

\* line 39
RunStart(r, F) ==
    /\ streamer[r].pc = "y_metadata"
    /\ \E f \in {"none"} \cup (F \cap {"sse"}) :
         LET s == streamer[r]
         IN IF f = "sse" THEN Raise(r, next_id(s), "run_start.sse")
            ELSE Yield(r, next_id(s), "y_run_start", sse_run_start(s, runs[r]))
    /\ UNCHANGED <<threads, threads_checkpoint_list, heap, runs, accepted, overlapped, rejected, sse_call, plain_runs>>

\* lines 42-44
Step0(r, F) ==
    /\ streamer[r].pc = "y_run_start"
    /\ \E f \in {"none"} \cup (F \cap {"create", "sse"}) :
         LET s == streamer[r]
             step_0_ckpt == create_step_0_checkpoint(s)
             a == StepAddr(r, 0)
             s1 == [s EXCEPT !.step_0_ckpt = a]
         IN IF f = "create"
            THEN /\ Raise(r, s, "step0.create")
                 /\ UNCHANGED <<heap, threads_checkpoint_list>>
            ELSE /\ heap' = [heap EXCEPT ![a] = step_0_ckpt]
                 /\ threads_checkpoint_list' =
                        [threads_checkpoint_list EXCEPT
                            ![s.thread_id] = add_checkpoint(@, a)]
                 /\ IF f = "sse" THEN Raise(r, next_id(s1), "step0.sse")
                    ELSE Yield(r, next_id(s1), "y_step0", sse_checkpoint(s1, step_0_ckpt))
    /\ UNCHANGED <<threads, runs, accepted, overlapped, rejected, sse_call, plain_runs>>

\* lines 46-48
Step1(r, F) ==
    /\ streamer[r].pc = "y_step0"
    /\ \E f \in {"none"} \cup (F \cap {"create", "sse"}) :
         LET s == streamer[r]
             step_1_ckpt == create_step_1_checkpoint(s, heap[s.step_0_ckpt])
             a == StepAddr(r, 1)
             s1 == [s EXCEPT !.step_1_ckpt = a]
         IN IF f = "create"
            THEN /\ Raise(r, s, "step1.create")
                 /\ UNCHANGED <<heap, threads_checkpoint_list>>
            ELSE /\ heap' = [heap EXCEPT ![a] = step_1_ckpt]
                 /\ threads_checkpoint_list' =
                        [threads_checkpoint_list EXCEPT
                            ![s.thread_id] = add_checkpoint(@, a)]
                 /\ IF f = "sse" THEN Raise(r, next_id(s1), "step1.sse")
                    ELSE Yield(r, next_id(s1), "y_step1", sse_checkpoint(s1, step_1_ckpt))
    /\ UNCHANGED <<threads, runs, accepted, overlapped, rejected, sse_call, plain_runs>>

\* lines 52-65: from the step-1 frame (the first word) or from the per-token
\* sleep (the next word) up to the token frame
Token(r, F) ==
    /\ \/ streamer[r].pc = "y_step1"
       \/ /\ streamer[r].pc = "sleep"
          /\ Len(streamer[r].full_content_chunks) < Len(Words(streamer[r].text))
    /\ \E f \in {"none"} \cup (F \cap {"sse"}) :
         LET s == streamer[r]
             words == Words(s.text)
             index == Len(heap[s.step_1_ckpt].messages) - 1
             chunk == Chunk(words, Len(s.full_content_chunks) + 1)
             s1 == [s EXCEPT !.full_content_chunks = Append(@, chunk)]
         IN IF f = "sse" THEN Raise(r, next_id(s1), "token.sse")
            ELSE Yield(r, next_id(s1), "y_token", sse_token(s1, index, chunk))
    /\ UNCHANGED <<threads, threads_checkpoint_list, heap, runs, accepted, overlapped, rejected, sse_call, plain_runs>>

\* lines 69-72: the store's latest checkpoint gets the text so far, then the sleep
StoreUpdate(r, F) ==
    /\ streamer[r].pc = "y_token"
    /\ \E f \in {"none"} \cup (F \cap {"store"}) :
         LET s == streamer[r]
             final_text == join(s.full_content_chunks)
             latest == get_latest_checkpoint(s.thread_id)
         IN IF f = "store"
            THEN /\ Raise(r, s, "token.store")
                 /\ UNCHANGED heap
            ELSE /\ heap' = set_content(heap, latest, final_text)
                 /\ streamer' = [streamer EXCEPT ![r].pc = "sleep"]
                 /\ UNCHANGED out
    /\ UNCHANGED <<threads, threads_checkpoint_list, runs, accepted, overlapped, rejected, sse_call, plain_runs>>


\* lines 75-78: after the last word's sleep, _finalize_data and the replace-run frame
Finalize(r, F) ==
    /\ streamer[r].pc = "sleep"
    /\ Len(streamer[r].full_content_chunks) = Len(Words(streamer[r].text))
    /\ \E f \in {"none"} \cup (F \cap {"finalize", "sse"}) :
         LET s == streamer[r]
             num_words == Len(Words(s.text))
             final_checkpoint == get_latest_checkpoint(s.thread_id)
             s1 == [s EXCEPT !.final_checkpoint = final_checkpoint]
             run_data == [runs[r] EXCEPT !.status = FinalStatus]
         IN /\ runs' = [runs EXCEPT ![r] = run_data]
            /\ IF f = "finalize"
               THEN /\ Raise(r, s1, "finalize.data")
                    /\ UNCHANGED heap
               ELSE /\ heap' = [heap EXCEPT
                           ![final_checkpoint].messages[
                               Len(heap[final_checkpoint].messages)].response_metadata =
                                   <<Usage(num_words)>>]
                    /\ IF f = "sse" THEN Raise(r, next_id(s1), "run_end.sse")
                       ELSE Yield(r, next_id(s1), "y_run_end", sse_run_end(s1, run_data))
    /\ UNCHANGED <<threads, threads_checkpoint_list, accepted, overlapped, rejected, sse_call, plain_runs>>

\* line 79
CheckpointEnd(r, F) ==
    /\ streamer[r].pc = "y_run_end"
    /\ \E f \in {"none"} \cup (F \cap {"sse"}) :
         LET s == streamer[r]
         IN IF f = "sse" THEN Raise(r, next_id(s), "checkpoint_end.sse")
            ELSE Yield(r, next_id(s), "y_checkpoint_end",
                       sse_checkpoint_end(s, heap[s.final_checkpoint]))
    /\ UNCHANGED <<threads, threads_checkpoint_list, heap, runs, accepted, overlapped, rejected, sse_call, plain_runs>>

\* line 80
StreamEnd(r, F) ==
    /\ streamer[r].pc = "y_checkpoint_end"
    /\ \E f \in {"none"} \cup (F \cap {"sse"}) :
         LET s == streamer[r]
         IN IF f = "sse" THEN Raise(r, next_id(s), "stream_end.sse")
            ELSE Yield(r, next_id(s), "y_stream_end",
                       sse_stream_end(s, heap[s.final_checkpoint]))
    /\ UNCHANGED <<threads, threads_checkpoint_list, heap, runs, accepted, overlapped, rejected, sse_call, plain_runs>>

\* the generator returns after the stream_end frame was consumed
Finish(r) ==
    /\ streamer[r].pc = "y_stream_end"
    /\ streamer' = [streamer EXCEPT ![r].pc = "done"]
    /\ UNCHANGED <<threads, threads_checkpoint_list, heap, runs, out, accepted, overlapped, rejected, sse_call, plain_runs>>

\* a handler that stops after the error frame
ErrorStreamEnd_silent(r) ==
    /\ streamer[r].pc = "y_error"
    /\ streamer' = [streamer EXCEPT ![r].pc = "y_error_end"]
    /\ UNCHANGED <<threads, threads_checkpoint_list, heap, runs, out, accepted, overlapped, rejected, sse_call, plain_runs>>

\* lines 88-89: after the error frame, the handler's stream_end
ErrorStreamEnd(r) ==
    /\ streamer[r].pc = "y_error"
    /\ LET s == [streamer[r] EXCEPT !.event_id = @ + 1]
       IN Yield(r, s, "y_error_end", sse_error_stream_end(s))
    /\ UNCHANGED <<threads, threads_checkpoint_list, heap, runs, accepted, overlapped, rejected, sse_call, plain_runs>>

ErrorFinish(r) ==
    /\ streamer[r].pc = "y_error_end"
    /\ streamer' = [streamer EXCEPT ![r].pc = "errored"]
    /\ UNCHANGED <<threads, threads_checkpoint_list, heap, runs, out, accepted, overlapped, rejected, sse_call, plain_runs>>

\* The places where the generator is suspended with the stream open.
Suspended ==
    {"y_keepalive", "y_metadata", "y_run_start", "y_step0", "y_step1", "y_token", "sleep",
     "y_run_end", "y_checkpoint_end", "y_stream_end", "y_error", "y_error_end"}

\* a disconnect whose generator still runs the handler of line 85 and emits its
\* error frame before it stops
DisconnectAsFault(r) ==
    /\ streamer[r].pc \in Suspended
    /\ streamer' = [streamer EXCEPT ![r].pc = "disconnected", ![r].cut = streamer[r].pc]
    /\ out' = [out EXCEPT ![r] = Append(@, sse_error(streamer[r]))]
    /\ UNCHANGED <<threads, threads_checkpoint_list, heap, runs, accepted, overlapped, rejected, sse_call, plain_runs>>

\* The consumer goes away while the generator is suspended: the transport closes
\* the generator (GeneratorExit / CancelledError, or the BrokenPipeError of line 82)
\* and nothing more of it runs.
Disconnect(r) ==
    /\ streamer[r].pc \in Suspended
    /\ streamer' = [streamer EXCEPT ![r].pc = "disconnected", ![r].cut = streamer[r].pc]
    /\ UNCHANGED <<threads, threads_checkpoint_list, heap, runs, out, accepted, overlapped, rejected, sse_call, plain_runs>>

\* The places of a part where a fault may cut it: while sse() builds the frame,
\* while a checkpoint is built, at the store update of line 70, and in
\* _finalize_data after its first line.
Faults == {"sse", "create", "store", "finalize"}

\* The program: requests arrive at any time, also for a thread with a stream in
\* flight; every part of a stream may fault; the consumer may go away.
Next ==
    \/ create_thread
    \/ \E t \in ThreadIds, text \in RaceTexts : stream_run(t, text)
    \/ \E r \in RunIds : Start(r)
    \/ \E r \in RunIds : Metadata(r, Faults)
    \/ \E r \in RunIds : RunStart(r, Faults)
    \/ \E r \in RunIds : Step0(r, Faults)
    \/ \E r \in RunIds : Step1(r, Faults)
    \/ \E r \in RunIds : Token(r, Faults)
    \/ \E r \in RunIds : StoreUpdate(r, Faults)
    \/ \E r \in RunIds : Finalize(r, Faults)
    \/ \E r \in RunIds : CheckpointEnd(r, Faults)
    \/ \E r \in RunIds : StreamEnd(r, Faults)
    \/ \E r \in RunIds : Finish(r)
    \/ \E r \in RunIds : ErrorStreamEnd(r)
    \/ \E r \in RunIds : ErrorFinish(r)
    \/ \E r \in RunIds : Disconnect(r)

Spec == Init /\ [][Next]_vars

\* The same with longer texts, consumers that stay and no fault.
NextHappy ==
    \/ create_thread
    \/ \E t \in ThreadIds, text \in PayloadTexts : stream_run(t, text)
    \/ \E r \in RunIds : Start(r)
    \/ \E r \in RunIds : Metadata(r, {})
    \/ \E r \in RunIds : RunStart(r, {})
    \/ \E r \in RunIds : Step0(r, {})
    \/ \E r \in RunIds : Step1(r, {})
    \/ \E r \in RunIds : Token(r, {})
    \/ \E r \in RunIds : StoreUpdate(r, {})
    \/ \E r \in RunIds : Finalize(r, {})
    \/ \E r \in RunIds : CheckpointEnd(r, {})
    \/ \E r \in RunIds : StreamEnd(r, {})
    \/ \E r \in RunIds : Finish(r)

SpecHappy == Init /\ [][NextHappy]_vars

\* The intended usage (one active stream per thread, callers serialize): a
\* request is made for a thread only when no stream of it is in flight.
Idle(t) == \A q \in RunIds : streamer[q].thread_id = t => ~InFlight(q)

\* Streams over the longest texts, with faults and disconnects, one at a time
\* per thread.
NextSerial ==
    \/ create_thread
    \/ \E t \in ThreadIds, text \in SerialTexts :
          Idle(t) /\ Len(runs) < MaxSerialRuns /\ stream_run(t, text)
    \/ \E t \in 1 .. MaxThreads + 1 : stream_run_not_found(t)
    \/ \E r \in RunIds : Start(r)
    \/ \E r \in RunIds : Metadata(r, Faults)
    \/ \E r \in RunIds : RunStart(r, Faults)
    \/ \E r \in RunIds : Step0(r, Faults)
    \/ \E r \in RunIds : Step1(r, Faults)
    \/ \E r \in RunIds : Token(r, Faults)
    \/ \E r \in RunIds : StoreUpdate(r, Faults)
    \/ \E r \in RunIds : Finalize(r, Faults)
    \/ \E r \in RunIds : CheckpointEnd(r, Faults)
    \/ \E r \in RunIds : StreamEnd(r, Faults)
    \/ \E r \in RunIds : Finish(r)
    \/ \E r \in RunIds : ErrorStreamEnd(r)
    \/ \E r \in RunIds : ErrorFinish(r)
    \/ \E r \in RunIds : Disconnect(r)

SpecSerial == Init /\ [][NextSerial]_vars

\* One resumption of the generator of run r by a consumer that reads on: the
\* part of stream_response from its suspension point to the next one.
Resume(r) ==
    /\ r \in RunIds
    /\ \/ Start(r)
       \/ Metadata(r, Faults)
       \/ RunStart(r, Faults)
       \/ Step0(r, Faults)
       \/ Step1(r, Faults)
       \/ Token(r, Faults)
       \/ StoreUpdate(r, Faults)
       \/ Finalize(r, Faults)
       \/ CheckpointEnd(r, Faults)
       \/ StreamEnd(r, Faults)
       \/ Finish(r)
       \/ ErrorStreamEnd(r)
       \/ ErrorFinish(r)

\* Streams whose consumers read to the end: requests arrive at any time, every
\* part may fault, nobody disconnects.
NextLive ==
    \/ create_thread
    \/ \E t \in ThreadIds, text \in SerialTexts :
          Len(runs) < MaxLiveRuns /\ stream_run(t, text)
    \/ \E r \in RunIds : Start(r)
    \/ \E r \in RunIds : Metadata(r, Faults)
    \/ \E r \in RunIds : RunStart(r, Faults)
    \/ \E r \in RunIds : Step0(r, Faults)
    \/ \E r \in RunIds : Step1(r, Faults)
    \/ \E r \in RunIds : Token(r, Faults)
    \/ \E r \in RunIds : StoreUpdate(r, Faults)
    \/ \E r \in RunIds : Finalize(r, Faults)
    \/ \E r \in RunIds : CheckpointEnd(r, Faults)
    \/ \E r \in RunIds : StreamEnd(r, Faults)
    \/ \E r \in RunIds : Finish(r)
    \/ \E r \in RunIds : ErrorStreamEnd(r)
    \/ \E r \in RunIds : ErrorFinish(r)

\* The event loop resumes a generator whose consumer reads (the response
\* iterates it with `async for`) and wakes it from asyncio.sleep: a stream
\* that can take a step is not left waiting forever.
SpecLive ==
    /\ Init
    /\ [][NextLive]_vars
    /\ \A r \in 1 .. MaxLiveRuns : WF_vars(Resume(r))

\* Runs of both kinds on the same threads: runs without a stream at any time,
\* streams that may fault or lose their consumer.
NextMixed ==
    \/ create_thread
    \/ \E t \in ThreadIds, text \in PlainTexts : create_run(t, text)
    \/ \E t \in 1 .. MaxThreads + 1 : create_run_not_found(t)
    \/ \E t \in ThreadIds, text \in PayloadTexts :
          Len(runs) < MaxMixedRuns /\ stream_run(t, text)
    \/ \E r \in RunIds : Start(r)
    \/ \E r \in RunIds : Metadata(r, Faults)
    \/ \E r \in RunIds : RunStart(r, Faults)
    \/ \E r \in RunIds : Step0(r, Faults)
    \/ \E r \in RunIds : Step1(r, Faults)
    \/ \E r \in RunIds : Token(r, Faults)
    \/ \E r \in RunIds : StoreUpdate(r, Faults)
    \/ \E r \in RunIds : Finalize(r, Faults)
    \/ \E r \in RunIds : CheckpointEnd(r, Faults)
    \/ \E r \in RunIds : StreamEnd(r, Faults)
    \/ \E r \in RunIds : Finish(r)
    \/ \E r \in RunIds : ErrorStreamEnd(r)
    \/ \E r \in RunIds : ErrorFinish(r)
    \/ \E r \in RunIds : Disconnect(r)

SpecMixed == Init /\ [][NextMixed]_vars

\* The arguments of the encoder: event names, payloads and ids.
EventNames == {<<"d", "a", "t", "a">>, <<"e", "r", "r", "o", "r">>}
SseIds == {<<>>} \cup {<<n>> : n \in 0 .. MaxSseId}
JsonStrings == SeqsOver(JsonChars, MaxJsonStrLen)
JsonItems == SeqsOver(JsonChars, 1)
MessageKey == <<"m", "e", "s", "s", "a", "g", "e">>
RunIdKey == <<"r", "u", "n", "_", "i", "d">>

\* one call sse(event, data, id_)
sse_encode(event, data, id_) ==
    /\ sse_call' = [event |-> event, data |-> data, id_ |-> id_,
                    frame |-> sse(event, data, id_)]
    /\ UNCHANGED <<threads, threads_checkpoint_list, heap, runs, streamer, out, accepted,
                   overlapped, rejected, plain_runs>>

\* The encoder alone, called on strings, on lists of strings and on objects.
NextSse ==
    \/ \E event \in EventNames, id_ \in SseIds, chars \in JsonStrings :
          sse_encode(event, JStr(chars), id_)
    \/ \E event \in EventNames, id_ \in SseIds, items \in SeqsOver(JsonItems, MaxJsonItems) :
          sse_encode(event, JList(items), id_)
    \/ \E event \in EventNames, id_ \in SseIds, chars \in JsonItems :
          \/ sse_encode(event, JObj(<<>>), id_)
          \/ sse_encode(event, JObj(<<<<RunIdKey, <<"a">>>>, <<MessageKey, chars>>>>), id_)

SpecSse == Init /\ [][NextSse]_vars


\* ================================================================ claims

\* C1: in every reachable state, under any interleaving of thread creations and
\* streams that end in success, fault or disconnect, each thread's checkpoint list
\* holds exactly one checkpoint with a null parent, the genesis made by
\* create_thread, and the parent id of every other checkpoint is the
\* checkpoint_id of a checkpoint registered before it (further from the head).
OneRootParentsRegistered ==
    \A t \in ThreadIds :
        LET cs == Checkpoints(t)
        IN /\ Cardinality({i \in DOMAIN cs : cs[i].parent_checkpoint = NullId}) = 1
           /\ cs[Len(cs)].parent_checkpoint = NullId
           /\ cs[Len(cs)].checkpoint_id = GenesisId(t)
           /\ \A i \in DOMAIN cs :
                 cs[i].parent_checkpoint # NullId =>
                    \E j \in DOMAIN cs :
                        j > i /\ cs[j].checkpoint_id = cs[i].parent_checkpoint

\* Two streams raced on one thread, one ended by fault and one by disconnect,
\* both registered their checkpoints and the list is not a chain.
OneRootWitness ==
    \E t \in ThreadIds :
        /\ t \in overlapped
        /\ Len(threads_checkpoint_list[t]) = 5
        /\ Checkpoints(t)[1].parent_checkpoint # Checkpoints(t)[2].checkpoint_id
        /\ \E r \in RunIds, q \in RunIds :
              /\ streamer[r].pc = "errored"
              /\ streamer[q].pc = "disconnected"

\* the newest-first list of thread t is a chain that ends in the genesis
StrictChain(t) ==
    LET cs == Checkpoints(t)
    IN /\ \A i \in 1 .. Len(cs) - 1 :
             cs[i].parent_checkpoint = cs[i + 1].checkpoint_id
       /\ cs[Len(cs)].parent_checkpoint = NullId
       /\ cs[Len(cs)].checkpoint_id = GenesisId(t)

\* C2: as long as no two streams were ever in flight at once on a thread, its
\* newest-first checkpoint list is a strict linked chain in every reachable
\* state: each checkpoint's parent id is the id of the next one, and the genesis
\* is last.
SerialThreadsAreChains ==
    \A t \in ThreadIds \ overlapped : StrictChain(t)

\* Two streams ran one after the other on a thread and left five checkpoints.
SerialChainWitness ==
    \E t \in ThreadIds \ overlapped :
        /\ Len(threads_checkpoint_list[t]) = 5
        /\ \A r \in RunIds : streamer[r].thread_id = t /\ streamer[r].pc \in Ended


\* the token frames of run r, in emission order
TokenFrames(r) ==
    SelectSeq(out[r], LAMBDA f : f.path = "/messages/{index}/content/-")

Chunks(frames) == [k \in 1 .. Len(frames) |-> frames[k].chunk]

\* C3: for a text whose whitespace-split words are w1..wn, n >= 1, the k-th
\* token chunk is wk and one blank for k < n and wn for k = n, and a stream that
\* ends in success has emitted exactly n of them, which concatenate to the words
\* joined by single blanks.
ChunksAreWordsThenBlank ==
    \A r \in RunIds :
        LET w == split(streamer[r].text)
            n == Len(w)
            toks == TokenFrames(r)
        IN n >= 1 =>
              /\ Len(toks) <= n
              /\ \A k \in 1 .. Len(toks) :
                    toks[k].chunk = IF k < n THEN w[k] \o <<" ">> ELSE w[k]
              /\ streamer[r].pc = "done" =>
                    /\ Len(toks) = n
                    /\ join(Chunks(toks)) = JoinSpaces(w)

\* the stream of run r has emitted the stream_end of the success path
SuccessEnded(r) ==
    \E i \in DOMAIN out[r] :
        out[r][i].event = "stream_end" /\ out[r][i].checkpoint # NoCheckpoint

\* C4: a stream that ran to success over n words has emitted, in this order and
\* number: the keepalive, one metadata frame, one add-run frame with status
\* running, the step-0 and the step-1 add-checkpoint frames, n add-token frames,
\* one replace-run frame, one replace-checkpoint frame and one stream_end with
\* run_id and final_checkpoint; nothing follows the stream_end.
SuccessFrameOrder ==
    \A r \in RunIds :
        SuccessEnded(r) =>
            LET o == out[r]
                n == Len(Words(streamer[r].text))
            IN /\ Len(o) = 8 + n
               /\ o[1] = Keepalive
               /\ o[2].event = "metadata" /\ o[2].run_id = r
               /\ o[2].thread_id = streamer[r].thread_id
               /\ o[3].event = "data" /\ o[3].op = "add" /\ o[3].path = "/runs/-"
               /\ o[3].run_id = r /\ o[3].status = "running"
               /\ o[4].event = "data" /\ o[4].op = "add" /\ o[4].path = "/checkpoints/-"
               /\ o[4].checkpoint.checkpoint_id = StepId(r, ":step_0")
               /\ o[5].event = "data" /\ o[5].op = "add" /\ o[5].path = "/checkpoints/-"
               /\ o[5].checkpoint.checkpoint_id = StepId(r, ":step_1")
               /\ \A k \in 1 .. n :
                     /\ o[5 + k].event = "data" /\ o[5 + k].op = "add"
                     /\ o[5 + k].path = "/messages/{index}/content/-"
               /\ o[6 + n].event = "data" /\ o[6 + n].op = "replace"
               /\ o[6 + n].path = "/runs/0" /\ o[6 + n].run_id = r
               /\ o[7 + n].event = "data" /\ o[7 + n].op = "replace"
               /\ o[7 + n].path = "/checkpoints/0"
               /\ o[7 + n].checkpoint.checkpoint_id # NullId
               /\ o[8 + n].event = "stream_end" /\ o[8 + n].run_id = r
               /\ o[8 + n].checkpoint.checkpoint_id = o[7 + n].checkpoint.checkpoint_id

\* A stream over three words has ended in success.
SuccessFrameWitness ==
    \E r \in RunIds :
        /\ streamer[r].pc = "done"
        /\ Len(split(streamer[r].text)) = 3
        /\ Len(out[r]) = 11

\* the frames of run r that carry an id
IdFrames(r) == SelectSeq(out[r], LAMBDA f : f.id # NoId)

\* C5: in every stream, however it ends, the frames that carry an id carry
\* 1, 2, 3, ... in emission order, also when a fault occurs while a frame is built.
ConsecutiveIds ==
    \A r \in RunIds :
        \A i \in 1 .. Len(IdFrames(r)) : IdFrames(r)[i].id = i

\* C6: after a stream that ended in success, alone on its thread, the thread's
\* latest checkpoint has the messages the latest checkpoint had at acceptance,
\* then a user message with the input text, then an assistant message whose
\* content is the input text (the placeholder for the empty text).
LatestHoldsEcho ==
    \A r \in RunIds :
        LET t == streamer[r].thread_id
            m == heap[get_latest_checkpoint(t)].messages
            base == accepted[r]
            text == streamer[r].text
        IN (/\ streamer[r].pc = "done"
            /\ t \notin overlapped
            /\ \A q \in RunIds : q > r => streamer[q].thread_id # t)
           => /\ Len(m) = Len(base) + 2
              /\ SubSeq(m, 1, Len(base)) = base
              /\ m[Len(base) + 1].role = "user"
              /\ m[Len(base) + 1].content = text
              /\ m[Len(base) + 2].role = "assistant"
              /\ m[Len(base) + 2].content = IF text = <<>> THEN Placeholder ELSE text


\* the usage attached to the last message of the checkpoint at address a
UsageOf(a) == heap[a].messages[Len(heap[a].messages)].response_metadata

\* the record of run r is success and the final checkpoint's usage counts its tokens
UsageCountsTokens(r) ==
    LET n == Len(TokenFrames(r))
    IN /\ runs[r].status = "success"
       /\ UsageOf(streamer[r].final_checkpoint) =
             <<[prompt_tokens |-> 5, completion_tokens |-> n, total_tokens |-> 5 + n]>>

\* C7 as stated: after a stream that ended in success the run record has status
\* success and the usage on the last message of the final checkpoint has
\* completion_tokens = the number of token frames of the stream, prompt_tokens = 5
\* and total_tokens = their sum.
UsageAfterSuccess ==
    \A r \in RunIds : streamer[r].pc = "done" => UsageCountsTokens(r)

\* C7 as amended: the same, provided no two streams were ever in flight at once
\* on the thread of the run.
UsageAfterSerialSuccess ==
    \A r \in RunIds :
        (streamer[r].pc = "done" /\ streamer[r].thread_id \notin overlapped)
            => UsageCountsTokens(r)

\* A stream over two words ended in success on a thread without overlap.
UsageWitness ==
    \E r \in RunIds :
        /\ streamer[r].pc = "done"
        /\ streamer[r].thread_id \notin overlapped
        /\ Len(TokenFrames(r)) = 2
        /\ UsageOf(streamer[r].final_checkpoint)[1].total_tokens = 7

\* the suspension points of the success path before the stream_end frame
BeforeStreamEnd ==
    {"y_keepalive", "y_metadata", "y_run_start", "y_step0", "y_step1", "y_token", "sleep",
     "y_run_end", "y_checkpoint_end"}

\* the consumer of run r went away at one of the suspension points of `where`
CutAt(r, where) == streamer[r].pc = "disconnected" /\ streamer[r].cut \in where

\* the consumer of run r went away after the step-1 frame was emitted and
\* before the store update of the last token
CutWhileStreaming(r) ==
    \/ CutAt(r, {"y_step1", "y_token"})
    \/ /\ CutAt(r, {"sleep"})
       /\ Len(streamer[r].full_content_chunks) < Len(Words(streamer[r].text))

NoErrorNoEnd(r) ==
    \A i \in DOMAIN out[r] : out[r][i].event \notin {"error", "stream_end"}

\* C8: after a disconnect between the step-1 frame and the last token's store
\* update the stream holds no error and no stream_end frame, emits nothing more,
\* and the run record stays running in every later state.
CutWhileStreamingStaysRunning ==
    /\ [](\A r \in RunIds :
            CutWhileStreaming(r) => runs[r].status = "running" /\ NoErrorNoEnd(r))
    /\ [][\A r \in RunIds :
            CutWhileStreaming(r) => out'[r] = out[r] /\ runs'[r] = runs[r]]_vars

\* The consumer went away during the sleep between two tokens.
CutWhileStreamingWitness ==
    \E r \in RunIds :
        /\ CutAt(r, {"sleep"})
        /\ CutWhileStreaming(r)
        /\ Len(TokenFrames(r)) = 1

\* C9 as stated: after a disconnect at any suspension point from the keepalive
\* to the frame before stream_end, or at any per-token delay, the run has not
\* been finalized: its status is running.
CutNeverFinalized ==
    \A r \in RunIds : CutAt(r, BeforeStreamEnd) => runs[r].status = "running"

\* C9 as amended: after such a disconnect the stream emits nothing more; the
\* status is running when the disconnect came before finalization (up to the
\* last per-token delay) and success when it came at the replace-run or the
\* replace-checkpoint frame, which are emitted after _finalize_data.
CutLeavesStatusAsItWas ==
    /\ [](\A r \in RunIds :
            CutAt(r, BeforeStreamEnd) =>
                /\ NoErrorNoEnd(r)
                /\ runs[r].status =
                      IF streamer[r].cut \in {"y_run_end", "y_checkpoint_end"}
                      THEN "success" ELSE "running")
    /\ [][\A r \in RunIds :
            CutAt(r, BeforeStreamEnd) => out'[r] = out[r] /\ runs'[r] = runs[r]]_vars

\* The consumer went away at the replace-checkpoint frame of a finalized run.
CutAfterFinalizeWitness ==
    \E r \in RunIds :
        CutAt(r, {"y_checkpoint_end"}) /\ runs[r].status = "success"

\* the stream of run r ended by the handler: its last two frames are the error
\* and the stream_end of the handler, and it holds no other error or stream_end
ErrorThenEnd(r) ==
    LET o == out[r]
        n == Len(o)
    IN /\ n >= 2
       /\ o[n - 1].event = "error" /\ o[n - 1].run_id = r /\ o[n - 1].message # ""
       /\ o[n].event = "stream_end" /\ o[n].run_id = r /\ o[n].checkpoint = NoCheckpoint
       /\ \A i \in 1 .. n - 2 : o[i].event \notin {"error", "stream_end"}

\* C10 as stated: a stream that ended after a fault has emitted one error frame
\* followed by one stream_end frame and nothing after it, and the run's status
\* is not success.
FaultEndsNotSuccess ==
    \A r \in RunIds :
        streamer[r].pc = "errored" => ErrorThenEnd(r) /\ runs[r].status # "success"

\* the faults that come after the first line of _finalize_data
AfterFinalize == {"finalize.data", "run_end.sse", "checkpoint_end.sse", "stream_end.sse"}

\* C10 as amended: ... and the run's status is the one it had at the fault:
\* running for a fault before _finalize_data, success for a fault in
\* _finalize_data after its first line or while a final frame is built.
FaultKeepsStatus ==
    \A r \in RunIds :
        streamer[r].pc = "errored" =>
            /\ ErrorThenEnd(r)
            /\ runs[r].status =
                  IF streamer[r].fault \in AfterFinalize THEN "success" ELSE "running"

\* A fault while the replace-checkpoint frame was built ended a finalized run.
FaultAfterFinalizeWitness ==
    \E r \in RunIds :
        /\ streamer[r].pc = "errored"
        /\ streamer[r].fault = "checkpoint_end.sse"
        /\ runs[r].status = "success"

\* C11: every run of an accepted stream request has reached a terminal status,
\* success or error, once its stream has closed, be it by normal completion, by
\* an in-band fault or by a disconnect.
ClosedRunsAreTerminal ==
    \A r \in RunIds :
        streamer[r].pc \in Ended => runs[r].status \in {"success", "error"}

\* the content of the last message of the checkpoint at address a
LastContent(a) == heap[a].messages[Len(heap[a].messages)].content

\* C12: a stream over the empty text emits no token other than the placeholder
\* and at most one; when it has run to its end it has emitted exactly one, the
\* assistant message of its step-1 checkpoint holds the placeholder,
\* completion_tokens is 1, the stream holds no error frame and the run is
\* success.
EmptyTextEchoesPlaceholder ==
    \A r \in RunIds :
        streamer[r].text = <<>> =>
            /\ Len(TokenFrames(r)) <= 1
            /\ \A k \in DOMAIN TokenFrames(r) : TokenFrames(r)[k].chunk = Placeholder
            /\ streamer[r].pc = "done" =>
                  /\ Len(TokenFrames(r)) = 1
                  /\ LastContent(StepAddr(r, 1)) = Placeholder
                  /\ heap[StepAddr(r, 1)].messages[Len(heap[StepAddr(r, 1)].messages)].role
                        = "assistant"
                  /\ UsageOf(StepAddr(r, 1)) # <<>>
                  /\ UsageOf(StepAddr(r, 1))[1].completion_tokens = 1
                  /\ \A i \in DOMAIN out[r] : out[r][i].event # "error"
                  /\ runs[r].status = "success"

\* A stream over the empty text ran to its end.
EmptyTextWitness ==
    \E r \in RunIds :
        /\ streamer[r].text = <<>>
        /\ streamer[r].pc = "done"
        /\ Len(TokenFrames(r)) = 1
        /\ LastContent(StepAddr(r, 1)) = Placeholder

\* the last run accepted on its thread
LastRunOfThread(r) ==
    \A q \in RunIds : streamer[q].thread_id = streamer[r].thread_id => q <= r

\* positions off+1 .. off+lim (from 1) of the list, as far as the list goes
Window(list, off, lim) ==
    LET rest == IF Len(list) > off THEN Len(list) - off ELSE 0
    IN [i \in 1 .. (IF lim < rest THEN lim ELSE rest) |-> list[off + i]]

\* C13: once a run has registered its checkpoints on a thread with one run in
\* flight at a time, the history read with offset 0 and limit 50 returns the
\* whole list with the run's step-1 checkpoint first and its step-0 checkpoint
\* second; every registration puts the new checkpoint first and leaves the
\* earlier ones behind it in their order; and for every offset and limit the
\* range read is the window [offset, offset + limit) of the newest-first list.
HistoryNewestFirst ==
    /\ [](\A t \in ThreadIds, off \in 0 .. MaxOffset, lim \in 0 .. MaxLimit :
            get_history(t, off, lim) = Window(threads_checkpoint_list[t], off, lim))
    /\ [](\A r \in RunIds :
            LET t == streamer[r].thread_id
                h == thread_history(t, <<0>>, <<50>>)
            IN (t \notin overlapped /\ LastRunOfThread(r) /\ streamer[r].step_1_ckpt # 0) =>
                  /\ Len(h.page) = Len(threads_checkpoint_list[t])
                  /\ h.page[1] = heap[StepAddr(r, 1)]
                  /\ h.page[1].checkpoint_id = StepId(r, ":step_1")
                  /\ h.page[2] = heap[StepAddr(r, 0)]
                  /\ h.page[2].checkpoint_id = StepId(r, ":step_0")
                  /\ h.x_next_offset = <<>>)
    /\ [][\A t \in ThreadIds :
            threads_checkpoint_list'[t] # threads_checkpoint_list[t] =>
                Tail(threads_checkpoint_list'[t]) = threads_checkpoint_list[t]]_vars

\* The second of two runs, one after the other on a thread, has ended: the page
\* holds its two checkpoints, then those of the first run, then the genesis.
HistoryWitness ==
    \E t \in ThreadIds \ overlapped, r \in RunIds, q \in RunIds :
        LET h == thread_history(t, <<>>, <<>>)
        IN /\ q < r
           /\ streamer[r].thread_id = t /\ streamer[q].thread_id = t
           /\ streamer[r].pc \in Ended
           /\ Len(h.page) = 5
           /\ h.page[1].checkpoint_id = StepId(r, ":step_1")
           /\ h.page[2].checkpoint_id = StepId(r, ":step_0")
           /\ h.page[3].checkpoint_id = StepId(q, ":step_1")
           /\ h.page[5].checkpoint_id = GenesisId(t)
           /\ get_history(t, 1, 2) = SubSeq(threads_checkpoint_list[t], 2, 3)

\* C14: a stream request for a thread id that was never created is rejected
\* before streaming begins: the step that answers it adds no run record, no
\* stream and no frame and changes no checkpoint list and no checkpoint; hence
\* every run record and every stream belongs to a thread that exists.
UnknownThreadRejected ==
    /\ [](/\ Len(streamer) = Len(runs) /\ Len(out) = Len(runs)
          /\ \A r \in RunIds : runs[r].thread_id \in ThreadIds)
    /\ [][rejected' # rejected =>
            /\ rejected'[Len(rejected')] \notin ThreadIds
            /\ UNCHANGED <<threads, threads_checkpoint_list, heap, runs, streamer, out,
                           accepted>>]_vars
    /\ [][runs' # runs => rejected' = rejected /\ runs'[Len(runs')].thread_id \in ThreadIds]_vars

\* A request for a thread that does not exist was answered 404 while another
\* thread exists and has a finished stream.
UnknownThreadWitness ==
    /\ rejected # <<>>
    /\ rejected[1] \notin ThreadIds
    /\ \E r \in RunIds : streamer[r].pc = "done"

\* the lines of a frame as a consumer reads them: the pieces between line feeds
RECURSIVE PiecesFrom(_, _, _)
PiecesFrom(s, cur, acc) ==
    IF s = <<>> THEN Append(acc, cur)
    ELSE IF Head(s) = LF THEN PiecesFrom(Tail(s), <<>>, Append(acc, cur))
         ELSE PiecesFrom(Tail(s), Append(cur, Head(s)), acc)

Pieces(s) == PiecesFrom(s, <<>>, <<>>)

StartsWith(line, prefix) ==
    Len(line) >= Len(prefix) /\ SubSeq(line, 1, Len(prefix)) = prefix

DropPrefix(line, prefix) == SubSeq(line, Len(prefix) + 1, Len(line))

\* the payload text a consumer rebuilds from a frame: its data lines without
\* their prefix, joined by line feeds
DataOf(frame) ==
    LET data_lines == SelectSeq(Pieces(frame), LAMBDA l : StartsWith(l, DataPrefix))
    IN JoinWith([i \in DOMAIN data_lines |-> DropPrefix(data_lines[i], DataPrefix)], <<LF>>)

\* the frame of the call is the id line (exactly when an id was given), the
\* event line, data lines and a closing blank line
FrameLayout(c) ==
    LET ls == Pieces(c.frame)
        n == Len(ls)
        first == IF c.id_ = <<>> THEN 1 ELSE 2
    IN /\ n >= first + 3
       /\ c.id_ # <<>> => ls[1] = IdPrefix \o str(c.id_[1])
       /\ ls[first] = EventPrefix \o c.event
       /\ \A i \in first + 1 .. n - 2 : StartsWith(ls[i], DataPrefix)
       /\ ls[n - 1] = <<>> /\ ls[n] = <<>>

\* C15: the frame of sse(event, payload, id) is the id line (present exactly
\* when an id is given), the event line, one data line per line of the indented
\* JSON serialization of the payload, and a blank line; removing the data
\* prefixes and joining the data lines with line feeds gives back the JSON
\* serialization, for every payload.
FrameRoundTrips ==
    sse_call # NoCall =>
        /\ FrameLayout(sse_call)
        /\ DataOf(sse_call.frame) = json_dumps(sse_call.data)

\* C16: under any interleaving of requests and stream steps on a thread, the
\* step in which a run registers its step-0 checkpoint builds it from the
\* store's latest checkpoint of that moment: its parent id is the checkpoint_id
\* of the latest checkpoint just before the registration and its messages are
\* that checkpoint's messages followed by the new user message.
Step0FromCurrentLatest ==
    [][\A r \in RunIds :
          (streamer[r].step_0_ckpt = 0 /\ streamer'[r].step_0_ckpt # 0) =>
              LET t == streamer[r].thread_id
                  latest == heap[get_latest_checkpoint(t)]
                  step_0 == heap'[StepAddr(r, 0)]
              IN /\ threads_checkpoint_list'[t][1] = StepAddr(r, 0)
                 /\ step_0.parent_checkpoint = latest.checkpoint_id
                 /\ step_0.messages =
                       Append(latest.messages, make_msg("user", streamer[r].text))]_vars

\* the last frame of the stream of run r
LastFrame(r) == out[r][Len(out[r])]

\* C17: the checkpoint a run overwrites, finalizes and reports is the store's
\* latest: it is always a checkpoint some run registered on the run's thread,
\* and the run's own step-1 checkpoint when no two streams ever overlapped on
\* the thread; nothing keeps streams from overlapping, and then it can be the
\* step-1 checkpoint of the other run (the witness).
FinalIsTheStoresLatest ==
    \A r \in RunIds :
        LET t == streamer[r].thread_id
            a == streamer[r].final_checkpoint
        IN a # 0 =>
              /\ \E i \in DOMAIN threads_checkpoint_list[t] : threads_checkpoint_list[t][i] = a
              /\ \E q \in RunIds :
                    streamer[q].thread_id = t /\ a \in {StepAddr(q, 0), StepAddr(q, 1)}
              /\ t \notin overlapped => a = StepAddr(r, 1)
              /\ streamer[r].pc = "done" =>
                    LastFrame(r).checkpoint.checkpoint_id = heap[a].checkpoint_id

\* Two runs A and B with different texts were in flight on one thread; A ran to
\* its end and the final_checkpoint of its stream_end is B's step-1 checkpoint,
\* whose assistant message holds A's text and A's usage.
RaceWitness ==
    \E A \in RunIds, B \in RunIds :
        LET reported == LastFrame(A).checkpoint
            last == reported.messages[Len(reported.messages)]
        IN /\ A # B
           /\ streamer[A].thread_id = streamer[B].thread_id
           /\ Words(streamer[A].text) # Words(streamer[B].text)
           /\ streamer[A].pc = "done"
           /\ streamer[A].final_checkpoint = StepAddr(B, 1)
           /\ reported.checkpoint_id = StepId(B, ":step_1")
           /\ reported.messages[Len(reported.messages) - 1].content = streamer[B].text
           /\ last.content = join(streamer[A].full_content_chunks)
           /\ last.response_metadata = <<Usage(Len(Words(streamer[A].text)))>>

IsPrefix(p, q) == Len(p) <= Len(q) /\ SubSeq(q, 1, Len(p)) = p

\* the content the assistant message of run r ends with when nothing cuts the stream
FinalContent(r) ==
    LET words == Words(streamer[r].text)
    IN join([j \in DOMAIN words |-> Chunk(words, j)])

\* C18: while a single run streams, the store follows the token frames: when
\* the k-th token frame is handed to the consumer the assistant message of the
\* store's latest checkpoint holds the first k-1 chunks, at the delay after it
\* the first k chunks; each token frame carries the k-th word alone (with or
\* without its blank), and what a reader finds in the store is at every
\* suspension point a prefix of the final content.
StoreFollowsTokens ==
    \A r \in RunIds :
        LET s == streamer[r]
            chunks == Chunks(TokenFrames(r))
            k == Len(chunks)
            words == Words(s.text)
            latest == get_latest_checkpoint(s.thread_id)
        IN /\ k <= Len(words)
           /\ \A j \in 1 .. k : chunks[j] \in {words[j], words[j] \o <<" ">>}
           /\ s.pc = "y_token" =>
                 k >= 1 /\ LastContent(latest) = join(SubSeq(chunks, 1, k - 1))
           /\ s.pc = "sleep" => k >= 1 /\ LastContent(latest) = join(chunks)
           /\ s.pc \in {"y_step1", "y_token", "sleep", "y_run_end", "y_checkpoint_end",
                        "y_stream_end"} =>
                 /\ latest = StepAddr(r, 1)
                 /\ IsPrefix(LastContent(latest), FinalContent(r))

\* The second token frame is with the consumer and the store holds the first
\* chunk only.
StoreFollowsWitness ==
    \E r \in RunIds :
        /\ streamer[r].pc = "y_token"
        /\ Len(TokenFrames(r)) = 2
        /\ LastContent(get_latest_checkpoint(streamer[r].thread_id)) = TokenFrames(r)[1].chunk
        /\ TokenFrames(r)[1].chunk # <<>>
        /\ Len(Words(streamer[r].text)) = 3

\* the checkpoint without its messages
Shell(c) == [c EXCEPT !.messages = <<>>]

AllButLast(seq) == SubSeq(seq, 1, Len(seq) - 1)

\* C19: on a thread with one run in flight at a time, a step changes a stored
\* checkpoint only if it is the step-1 checkpoint of the run that takes the
\* step, and then only in its last message; so the genesis keeps its empty
\* list, a step-0 checkpoint keeps the messages it was registered with (the
\* thread's messages at acceptance and the user message, which is last), and a
\* step-1 checkpoint keeps all but its last message.
OnlyOwnLastMessageChanges ==
    /\ [][\A a \in 1 .. HeapSize :
            (heap[a] # NoCheckpoint /\ heap'[a] # heap[a]
                /\ heap[a].thread_id \notin overlapped) =>
                /\ \E r \in RunIds :
                      /\ a = StepAddr(r, 1)
                      /\ InFlight(r)
                      /\ streamer'[r] # streamer[r]
                /\ Shell(heap'[a]) = Shell(heap[a])
                /\ Len(heap'[a].messages) = Len(heap[a].messages)
                /\ AllButLast(heap'[a].messages) = AllButLast(heap[a].messages)]_vars
    /\ [](\A t \in ThreadIds : heap[GenesisAddr(t)].messages = <<>>)
    /\ [](\A r \in RunIds :
            streamer[r].thread_id \notin overlapped =>
                /\ streamer[r].step_0_ckpt # 0 =>
                      heap[StepAddr(r, 0)].messages =
                          Append(accepted[r], make_msg("user", streamer[r].text))
                /\ streamer[r].step_1_ckpt # 0 =>
                      AllButLast(heap[StepAddr(r, 1)].messages) =
                          heap[StepAddr(r, 0)].messages)

\* Two runs, one after the other on a thread, both ran to success: the step-0
\* checkpoint of the second still is the first's final messages and the user
\* message.
OwnLastMessageWitness ==
    \E q \in RunIds, r \in RunIds :
        /\ q < r
        /\ streamer[q].thread_id = streamer[r].thread_id
        /\ streamer[r].thread_id \notin overlapped
        /\ streamer[q].pc = "done" /\ streamer[r].pc = "done"
        /\ heap[StepAddr(r, 0)].messages =
              Append(heap[StepAddr(q, 1)].messages, make_msg("user", streamer[r].text))
        /\ LastContent(StepAddr(r, 1)) # <<>>
        /\ UsageOf(StepAddr(r, 1)) # <<>>

\* the stored checkpoints of the threads on which no two streams overlapped
SerialStored ==
    UNION {{threads_checkpoint_list[t][i] : i \in DOMAIN threads_checkpoint_list[t]} :
              t \in ThreadIds \ overlapped}

\* C20 as stated: with one run in flight per thread, a stored message has
\* non-empty response metadata only if it is the last message, an assistant
\* message, of a step-1 checkpoint whose run has status success.
MetadataOnlyOnFinalLast ==
    \A a \in SerialStored :
        \A j \in DOMAIN heap[a].messages :
            heap[a].messages[j].response_metadata # <<>> =>
                /\ heap[a].step = 1
                /\ j = Len(heap[a].messages)
                /\ heap[a].messages[j].role = "assistant"
                /\ runs[heap[a].run_id].status = "success"

\* C20 as amended: with one run in flight per thread, a stored message has
\* non-empty response metadata only if it is an assistant message and is, or is
\* a copy carried into a later checkpoint of, the last message of the step-1
\* checkpoint of a run of the thread with status success; the assistant message
\* of a run that is not success has empty response metadata.
MetadataOnlyFromFinalized ==
    /\ \A a \in SerialStored :
          \A j \in DOMAIN heap[a].messages :
              heap[a].messages[j].response_metadata # <<>> =>
                  /\ heap[a].messages[j].role = "assistant"
                  /\ \E q \in RunIds :
                        /\ streamer[q].thread_id = heap[a].thread_id
                        /\ streamer[q].step_1_ckpt # 0
                        /\ runs[q].status = "success"
                        /\ j = Len(heap[StepAddr(q, 1)].messages)
                        /\ heap[a].messages[j] = heap[StepAddr(q, 1)].messages[j]
    /\ \A r \in RunIds :
          (streamer[r].thread_id \notin overlapped /\ streamer[r].step_1_ckpt # 0
              /\ runs[r].status # "success") =>
              UsageOf(StepAddr(r, 1)) = <<>>

\* The second of two runs, one after the other on a thread, is streaming: its
\* step-0 checkpoint holds the finalized assistant message of the first run,
\* with its usage, before the user message, and its own assistant message has
\* no metadata.
MetadataCopiedWitness ==
    \E q \in RunIds, r \in RunIds :
        /\ q < r
        /\ streamer[q].thread_id = streamer[r].thread_id
        /\ streamer[r].thread_id \notin overlapped
        /\ streamer[r].pc = "sleep"
        /\ runs[r].status = "running"
        /\ streamer[q].pc = "done"
        /\ Len(heap[StepAddr(r, 0)].messages) = 3
        /\ heap[StepAddr(r, 0)].messages[2].response_metadata # <<>>
        /\ heap[StepAddr(r, 0)].messages[2] = heap[StepAddr(q, 1)].messages[2]
        /\ UsageOf(StepAddr(r, 1)) = <<>>

\* the checkpoint ids of a thread's list, head first
CheckpointIds(t) ==
    [i \in DOMAIN threads_checkpoint_list[t] |->
        heap[threads_checkpoint_list[t][i]].checkpoint_id]

\* the step inserts one checkpoint, with an id the list did not hold, at
\* position 0 of the list of thread t and leaves the rest where it was
InsertsAtHead(t) ==
    /\ Len(threads_checkpoint_list'[t]) = Len(threads_checkpoint_list[t]) + 1
    /\ Tail(threads_checkpoint_list'[t]) = threads_checkpoint_list[t]
    /\ Tail(CheckpointIds(t)') = CheckpointIds(t)
    /\ \A i \in DOMAIN CheckpointIds(t) : CheckpointIds(t)'[1] # CheckpointIds(t)[i]

\* C21: the checkpoint list of a known thread is never empty, and every step
\* (thread creation, acceptance of a run, any part of a stream, a fault and its
\* handler, a disconnect) either leaves the list and its sequence of checkpoint
\* ids as they were or inserts exactly one new checkpoint at position 0; nothing
\* is removed or moved, also after a fault or a disconnect of a run that had
\* registered one or both of its checkpoints.
ListGrowsAtHeadOnly ==
    /\ [](\A t \in ThreadIds : threads_checkpoint_list[t] # <<>>)
    /\ [][\A t \in ThreadIds :
            \/ /\ threads_checkpoint_list'[t] = threads_checkpoint_list[t]
               /\ CheckpointIds(t)' = CheckpointIds(t)
            \/ InsertsAtHead(t)]_vars

\* A run registered both checkpoints, then ended by fault or disconnect, and
\* its two checkpoints are still the head of the thread's list, in front of
\* the genesis.
NoRollbackWitness ==
    \E r \in RunIds :
        /\ streamer[r].pc \in {"errored", "disconnected"}
        /\ streamer[r].step_1_ckpt = StepAddr(r, 1)
        /\ threads_checkpoint_list[streamer[r].thread_id] =
               <<StepAddr(r, 1), StepAddr(r, 0), GenesisAddr(streamer[r].thread_id)>>

\* the positions of thread t's list that hold a checkpoint with this id
PositionsOf(t, id) == {i \in DOMAIN CheckpointIds(t) : CheckpointIds(t)[i] = id}

\* C22: in every reachable state, also with streams that overlap on a thread, no
\* two positions of a thread's list hold the same checkpoint id; a checkpoint
\* registered by run r at step k has the id r:step_k, and each of r:step_0 and
\* r:step_1 is on the lists at most once, on the list of r's thread.
CheckpointIdsUnique ==
    /\ \A t \in ThreadIds : \A i, j \in DOMAIN CheckpointIds(t) :
           CheckpointIds(t)[i] = CheckpointIds(t)[j] => i = j
    /\ \A t \in ThreadIds : \A i \in DOMAIN threads_checkpoint_list[t] :
           LET c == heap[threads_checkpoint_list[t][i]]
           IN IF c.run_id = InitialRunId
              THEN c.checkpoint_id = GenesisId(t)
              ELSE /\ c.step \in {0, 1}
                   /\ c.checkpoint_id =
                          StepId(c.run_id, IF c.step = 0 THEN ":step_0" ELSE ":step_1")
    /\ \A r \in RunIds, suffix \in {":step_0", ":step_1"}, t \in ThreadIds :
           /\ Cardinality(PositionsOf(t, StepId(r, suffix))) <= 1
           /\ PositionsOf(t, StepId(r, suffix)) # {} => t = streamer[r].thread_id

\* Two streams overlapped on one thread and each registered both of its
\* checkpoints: the list holds the four step ids and the genesis id.
OverlapIdsWitness ==
    \E t \in overlapped :
        /\ Len(threads_checkpoint_list[t]) = 5
        /\ \E r, q \in RunIds :
              /\ r # q
              /\ \A suffix \in {":step_0", ":step_1"} :
                    /\ PositionsOf(t, StepId(r, suffix)) # {}
                    /\ PositionsOf(t, StepId(q, suffix)) # {}

\* the positions of the stream_end frames of run r
StreamEnds(r) == {i \in DOMAIN out[r] : out[r][i].event = "stream_end"}

\* the generator of run r has returned and its stream holds exactly one
\* stream_end, as its last frame
EndedWithStreamEnd(r) ==
    /\ streamer[r].pc \in {"done", "errored"}
    /\ StreamEnds(r) = {Len(out[r])}

\* C23: with consumers that read on and never disconnect, and generators that
\* are resumed whenever they can run, every accepted stream ends: it emits
\* exactly one stream_end and then returns.  At no moment does a stream hold two
\* stream_end frames or a frame after its stream_end, and the frame before the
\* stream_end is the replace-checkpoint frame of a stream without error frame
\* (the success sequence) or the error frame of the handler.
StreamAlwaysEnds ==
    /\ [](\A r \in RunIds :
            /\ Cardinality(StreamEnds(r)) <= 1
            /\ \A i \in StreamEnds(r) :
                  /\ i = Len(out[r])
                  /\ i > 1
                  /\ \/ /\ out[r][i - 1].event = "data"
                        /\ out[r][i - 1].op = "replace"
                        /\ out[r][i - 1].path = "/checkpoints/0"
                        /\ \A j \in DOMAIN out[r] : out[r][j].event # "error"
                        /\ streamer[r].pc \in {"y_stream_end", "done"}
                     \/ /\ out[r][i - 1].event = "error"
                        /\ streamer[r].pc \in {"y_error_end", "errored"}
            /\ streamer[r].pc \in {"done", "errored"} => EndedWithStreamEnd(r))
    /\ \A r \in 1 .. MaxLiveRuns : (r \in RunIds) ~> (r \in RunIds /\ EndedWithStreamEnd(r))

\* A stream over three words emitted two tokens, met a fault while the third
\* token frame was built, and ended by the handler with one stream_end.
FaultInLoopEndsWitness ==
    \E r \in RunIds :
        /\ streamer[r].pc = "errored"
        /\ streamer[r].fault = "token.sse"
        /\ Len(Words(streamer[r].text)) = 3
        /\ Len(TokenFrames(r)) = 2
        /\ EndedWithStreamEnd(r)

\* the runs without a stream made on thread t, in order
PlainRunsOf(t) == SelectSeq(plain_runs, LAMBDA run : run.thread_id = t)

\* the step is a step of the stream of run r: its acceptance or a part of its
\* generator, its end by fault or disconnect included
StreamStepOf(r) ==
    IF r \in RunIds THEN streamer'[r] # streamer[r] ELSE Len(runs') = r

\* C24: a step of a streaming run (its acceptance, any part of its generator,
\* its handler after a fault, its disconnect) changes no Thread record, no run
\* record but its own, and no checkpoint list or checkpoint of another thread;
\* a Thread record changes only in the step of a run without a stream on that
\* thread.  So in every state a thread's status is idle, its stamp counts the
\* runs without a stream made on it, every message of its values.messages has
\* the output of such a run as content, and a thread that had only streams has
\* the empty values.messages and the stamp of its creation.
StreamLeavesThreadRecord ==
    /\ [][\A r \in 1 .. MaxRuns :
            StreamStepOf(r) =>
                /\ \A t \in ThreadIds : threads'[t] = threads[t]
                /\ Len(threads') = Len(threads)
                /\ plain_runs' = plain_runs
                /\ \A q \in RunIds \ {r} : runs'[q] = runs[q]
                /\ \A t \in ThreadIds \ {streamer'[r].thread_id} :
                      /\ threads_checkpoint_list'[t] = threads_checkpoint_list[t]
                      /\ \A i \in DOMAIN threads_checkpoint_list[t] :
                            heap'[threads_checkpoint_list[t][i]] =
                                heap[threads_checkpoint_list[t][i]]]_vars
    /\ [][\A t \in ThreadIds :
            threads'[t] # threads[t] =>
                /\ Len(plain_runs') = Len(plain_runs) + 1
                /\ plain_runs'[Len(plain_runs')].thread_id = t
                /\ UNCHANGED <<runs, streamer, out>>]_vars
    /\ [](\A t \in ThreadIds :
            /\ threads[t].status = "idle"
            /\ threads[t].updated_at = Len(PlainRunsOf(t))
            /\ \A i \in DOMAIN threads[t].messages :
                  \E k \in DOMAIN PlainRunsOf(t) :
                      threads[t].messages[i].content = PlainRunsOf(t)[k].output
            /\ PlainRunsOf(t) = <<>> => threads[t].messages = <<>>)

\* A thread got the echo of "a" from a run without a stream, and a stream over
\* two words on the same thread ended in success: the stream's user and
\* assistant messages are in its step-1 checkpoint, the record's
\* values.messages holds the first echo only.
StreamedMessagesWitness ==
    \E r \in RunIds :
        LET t == streamer[r].thread_id
        IN /\ streamer[r].pc = "done"
           /\ Len(Words(streamer[r].text)) = 2
           /\ Len(PlainRunsOf(t)) = 1
           /\ threads[t].messages = <<[role |-> "user", content |-> <<"a">>],
                                     [role |-> "assistant", content |-> <<"a">>]>>
           /\ Len(heap[StepAddr(r, 1)].messages) = 2
           /\ heap[StepAddr(r, 1)].messages[1].content = streamer[r].text
           /\ heap[StepAddr(r, 1)].messages[2].role = "assistant"
           /\ heap[StepAddr(r, 1)].messages[2].content # <<>>


=============================================================================
